---------------------------- MODULE Spec2Model ----------------------------
(***************************************************************************)
(* A model of notePlayer.js: the 88-note table (getNotesInfo), the three   *)
(* factories (buildFromName, buildFromFrequency, buildFromKeyNb), the      *)
(* constructor, the setters and play with its timer and its end-of-        *)
(* playback notification.                                                  *)
(*                                                                         *)
(* JavaScript values are tagged records.  Strings are sequences of         *)
(* one-character strings, so that slice, parseInt and concatenation are    *)
(* computed and not assumed.  Frequencies are fixed-point numbers in       *)
(* thousandths of a Hertz; attack, release, volume in thousandths; the     *)
(* duration in milliseconds.                                               *)
(***************************************************************************)
EXTENDS Integers, Sequences, FiniteSets, TLC

VARIABLES
    FREQ,       \* the global FREQ that getNotesInfo assigns (line 154, 159)
    KEYNB,      \* the global KEYNB that getNotesInfo assigns (line 155, 158)
    window,     \* the host: whether it offers an AudioContext constructor
    input,      \* the factory call the caller makes: factory and arguments
    call,       \* the names of the last two static functions called
    ret,        \* what that call returned
    console,    \* what that call wrote with console.error / console.warn
    players,    \* the notePlayer instances the caller holds
    plays,      \* one record per call of play: oscillator, timer, callback
    t_np,       \* the global t_np that play assigns (line 201)
    last,       \* the last call of a setter and how it ended
    rerouted    \* the instances on which setDestinationNode has been called

vars == <<FREQ, KEYNB, window, input, call, ret, console, players, plays, t_np, last,
          rerouted>>

staticVars == <<FREQ, KEYNB, input, call, ret, console>>
playerVars == <<players, plays, t_np, last, rerouted>>

---------------------------------------------------------------------------
(* JavaScript values *)

Undefined == [t |-> "undefined"]
Null == [t |-> "null"]
NaN == [t |-> "number", nan |-> TRUE]
Num(n) == [t |-> "number", nan |-> FALSE, v |-> n]
Str(s) == [t |-> "string", v |-> s]
Bool(b) == [t |-> "boolean", v |-> b]
Ctx(id) == [t |-> "AudioContext", id |-> id]
\* ctx.destination of an AudioContext
Destination(ctx) == [t |-> "AudioNode", ctx |-> ctx.id, main |-> TRUE]
\* some other connectable node the caller made from context id
OtherNode(id) == [t |-> "AudioNode", ctx |-> id, main |-> FALSE]

IsNum(x) == x.t = "number" /\ ~x.nan

Digits == <<"0", "1", "2", "3", "4", "5", "6", "7", "8", "9">>
IsDigit(c) == \E i \in 1..10 : Digits[i] = c
DigitValue(c) == (CHOOSE i \in 1..10 : Digits[i] = c) - 1

\* noteName.slice(-1): the last character, "" for ""
SliceLast(s) == IF Len(s) = 0 THEN <<>> ELSE <<s[Len(s)]>>
\* noteName.slice(0,2)
SliceFirstTwo(s) == IF Len(s) <= 2 THEN s ELSE SubSeq(s, 1, 2)

\* parseInt of a string of at most one character
ParseInt(s) ==
    IF Len(s) = 1 /\ IsDigit(s[1]) THEN Num(DigitValue(s[1])) ELSE NaN

RECURSIVE DecimalDigits(_)
DecimalDigits(n) ==
    IF n < 10 THEN <<Digits[n + 1]>>
    ELSE DecimalDigits(n \div 10) \o <<Digits[(n % 10) + 1]>>

\* the string a number becomes when it is concatenated to a string
NumberToString(x) ==
    IF x.nan THEN <<"N", "a", "N">>
    ELSE IF x.v < 0 THEN <<"-">> \o DecimalDigits(-x.v)
    ELSE DecimalDigits(x.v)

RECURSIVE DecimalValue(_)
DecimalValue(s) ==
    IF Len(s) = 0 THEN 0
    ELSE 10 * DecimalValue(SubSeq(s, 1, Len(s) - 1)) + DigitValue(s[Len(s)])

\* ToNumber, as the relational and the == operators apply it
ToNumber(x) ==
    CASE x.t = "number" -> x
      [] x.t = "null" -> Num(0)
      [] x.t = "undefined" -> NaN
      [] x.t = "boolean" -> IF x.v THEN Num(1) ELSE Num(0)
      [] x.t = "string" ->
            IF \A i \in 1..Len(x.v) : IsDigit(x.v[i])
            THEN Num(DecimalValue(x.v)) ELSE NaN
      [] OTHER -> NaN

\* a < b on numbers: false when either side is NaN
Less(a, b) == IsNum(a) /\ IsNum(b) /\ a.v < b.v

\* k == x, k a number: null and undefined equal no number
LooseEqualsNumber(k, x) ==
    /\ x.t \in {"number", "string", "boolean"}
    /\ IsNum(ToNumber(x))
    /\ ToNumber(x).v = k

Abs(n) == IF n < 0 THEN -n ELSE n

---------------------------------------------------------------------------
(* getNotesInfo *)

DICT_KEYS == <<<<"A">>, <<"A", "#">>, <<"B">>, <<"C">>, <<"C", "#">>, <<"D">>,
               <<"D", "#">>, <<"E">>, <<"F">>, <<"F", "#">>, <<"G">>, <<"G", "#">>>>
DICT_OCTAVES == <<0, 1, 2, 3, 4, 5, 6, 7, 8>>

\* 25.95654359874657 Hz, in thousandths of a Hertz
FREQ_START == 25957
KEYNB_START == 0
\* the index from which dropRightWhile drops
KEPT == 88

\* Math.pow(2, 1/12) - 1 = 0.0594630943..., in millionths
SEMITONE_MILLIONTHS == 59463

\* FREQ * Math.pow(2, 1/12), rounded to the thousandth of a Hertz; the
\* product is split so that no intermediate exceeds 31 bits
SemitoneUp(f) ==
    LET hi == f \div 1000
        lo == f % 1000
        x == hi * SEMITONE_MILLIONTHS
    IN f + (x \div 1000)
         + (((x % 1000) * 1000 + lo * SEMITONE_MILLIONTHS + 500000) \div 1000000)

\* a getNotesInfo that would not reset KEYNB and go on from the value left
InitialKEYNBNotReset(g) == g.KEYNB

\* the values the globals KEYNB and FREQ take at lines 154-155, whatever they held
InitialKEYNB(g) == KEYNB_START
InitialFREQ(g) == FREQ_START

\* _(DICT_KEYS).map(function(v2,k2){...}).value() for the octave v, from the
\* globals g: the twelve records and the globals afterwards; k2 is the index
\* of the next key, the number of records made so far
RECURSIVE MapKeys(_, _, _)
MapKeys(v, g, acc) ==
    IF Len(acc) >= Len(DICT_KEYS) THEN [value |-> acc, g |-> g]
    ELSE LET k2 == Len(acc)
             e == [keynb |-> g.KEYNB + 1, freq |-> SemitoneUp(g.FREQ),
                   name |-> DICT_KEYS[k2 + 1] \o NumberToString(Num(v))]
         IN MapKeys(v, [KEYNB |-> e.keynb, FREQ |-> e.freq], Append(acc, e))

\* _(DICT_OCTAVES).map(function(v,k){...}): one array of records per octave
RECURSIVE MapOctaves(_, _)
MapOctaves(g, acc) ==
    IF Len(acc) >= Len(DICT_OCTAVES) THEN [value |-> acc, g |-> g]
    ELSE LET k == Len(acc)
             m == MapKeys(DICT_OCTAVES[k + 1], g, <<>>)
         IN MapOctaves(m.g, Append(acc, m.value))

RECURSIVE Flatten(_)
Flatten(a) == IF Len(a) = 0 THEN <<>> ELSE Head(a) \o Flatten(Tail(a))

\* .dropRightWhile(function(e,i){ return i >= 88 }): i is the 0-based index
RECURSIVE DropRightWhile(_)
DropRightWhile(a) ==
    IF Len(a) > 0 /\ Len(a) - 1 >= KEPT
    THEN DropRightWhile(SubSeq(a, 1, Len(a) - 1))
    ELSE a

\* lines 156-172 from given values of KEYNB and FREQ: the array returned and
\* the globals it leaves
Generate(keynb, freq) ==
    LET m == MapOctaves([KEYNB |-> keynb, FREQ |-> freq], <<>>)
    IN [value |-> DropRightWhile(Flatten(m.value)), g |-> m.g]

\* the same from the values lines 154-155 assign, evaluated once
GenerateFromStart == Generate(KEYNB_START, FREQ_START)

\* getNotesInfo(), called with the globals g: the array returned and the
\* globals it leaves
GetNotesInfo(g) ==
    LET keynb == InitialKEYNB(g)
        freq == InitialFREQ(g)
    IN IF keynb = KEYNB_START /\ freq = FREQ_START
       THEN GenerateFromStart
       ELSE Generate(keynb, freq)

\* _(list).find(pred): the first element satisfying pred, undefined if none
FindByName(list, noteName) ==
    LET hits == {i \in 1..Len(list) : list[i].name = noteName}
    IN IF hits = {} THEN Undefined
       ELSE list[CHOOSE i \in hits : \A j \in hits : i <= j]

FindByKeyNb(list, noteKeyNb) ==
    LET hits == {i \in 1..Len(list) : LooseEqualsNumber(list[i].keynb, noteKeyNb)}
    IN IF hits = {} THEN Undefined
       ELSE list[CHOOSE i \in hits : \A j \in hits : i <= j]

---------------------------------------------------------------------------
(* the constructor *)

\* the environment of a construction: whether the host offers
\* window.AudioContext (or webkitAudioContext), the context `new` of it would
\* give, and the value _.random(0.5,3,true) draws
Env(hasAudio, fresh, duration) ==
    [hasAudio |-> hasAudio, fresh |-> fresh, duration |-> duration]

TypeErrorLine == [level |-> "error", prefix |-> "", what |-> "TypeError"]

\* function notePlayer(obj), lines 25-46: the object `this` is left as, what
\* the function returns, and what the catch block logs
Constructor(obj, env) ==
    LET fields == [t |-> "notePlayer",
                   pianoKeyNb |-> obj.keynb,
                   frequency |-> obj.freq,
                   octave |-> SliceLast(obj.name),
                   name |-> obj.name,
                   duration |-> env.duration,
                   volume |-> 1000,
                   verbose |-> FALSE,
                   attack |-> 300,
                   release |-> 100,
                   audioContext |-> Undefined,
                   destinationNode |-> Undefined]
        caught(this) == [this |-> this, returns |-> Null, console |-> <<TypeErrorLine>>]
    IN IF obj.audioContext = Undefined
       THEN IF env.hasAudio
            THEN [this |-> [fields EXCEPT !.audioContext = env.fresh,
                                          !.destinationNode = Destination(env.fresh)],
                  returns |-> Undefined, console |-> <<>>]
            ELSE caught(fields)        \* new (undefined)() throws at line 39
       ELSE IF obj.audioContext.t = "AudioContext"
            THEN [this |-> [fields EXCEPT !.audioContext = obj.audioContext,
                                          !.destinationNode = Destination(obj.audioContext)],
                  returns |-> Undefined, console |-> <<>>]
            ELSE \* null.destination throws at line 40, after line 39 assigned
                 caught([fields EXCEPT !.audioContext = obj.audioContext])

\* new notePlayer(n): a constructor's return value is used only if it is an
\* object; undefined and null are not, so `new` evaluates to `this`
New(c) == c.this

---------------------------------------------------------------------------
(* the factories *)

ErrorLine(what) == [level |-> "error", prefix |-> "NOTEPLAYER ERROR: ", what |-> what]
UsageLine(fn) == [level |-> "warn", prefix |-> "USAGE: notePlayer.", what |-> fn]

\* how the statements inside a try block end: with a return or with a throw;
\* console is what they logged, g the globals FREQ and KEYNB they leave
Return(value, log, g) == [kind |-> "return", value |-> value, console |-> log, g |-> g]
Throw(what, g) == [kind |-> "throw", what |-> what, console |-> <<>>, g |-> g]

\* a catch block that would handle the strings the factory throws itself and
\* let a TypeError go on to the caller
TryCatchOwnThrowsOnly(fn, body) ==
    IF body.kind = "throw"
    THEN [ret |-> Null, thrown |-> body.what = "TypeError", g |-> body.g,
          console |-> body.console \o <<ErrorLine(body.what), UsageLine(fn)>>]
    ELSE [ret |-> body.value, thrown |-> FALSE, g |-> body.g,
          console |-> body.console]

\* try{ body }catch(e){ console.error(...); console.warn(...); return null }
\* of factory fn, lines 83-87, 112-116, 137-141: nothing is thrown further
TryCatch(fn, body) ==
    IF body.kind = "throw"
    THEN [ret |-> Null, thrown |-> FALSE, g |-> body.g,
          console |-> body.console \o <<ErrorLine(body.what), UsageLine(fn)>>]
    ELSE [ret |-> body.value, thrown |-> FALSE, g |-> body.g,
          console |-> body.console]

DICT_TRANSLATIONS(key) ==
    CASE key = <<"C", "b">> -> Str(<<"B">>)
      [] key = <<"D", "b">> -> Str(<<"C", "#">>)
      [] key = <<"E", "b">> -> Str(<<"D", "#">>)
      [] key = <<"F", "b">> -> Str(<<"E">>)
      [] key = <<"G", "b">> -> Str(<<"F", "#">>)
      [] key = <<"A", "b">> -> Str(<<"G", "#">>)
      [] key = <<"B", "b">> -> Str(<<"A", "#">>)
      [] OTHER -> Undefined

\* a buildFromName that would look the name up as given
TranslatedNameAsGiven(noteName, NOTE_INPUT, OCTAVE_INPUT) == noteName

\* line 74: the name looked up
TranslatedName(noteName, NOTE_INPUT, OCTAVE_INPUT) ==
    IF DICT_TRANSLATIONS(NOTE_INPUT) # Undefined
    THEN DICT_TRANSLATIONS(NOTE_INPUT).v \o NumberToString(OCTAVE_INPUT)
    ELSE noteName

\* line 62: the octaves buildFromName refuses
OctaveRefused(OCTAVE_INPUT) == Less(OCTAVE_INPUT, Num(1)) \/ Less(Num(8), OCTAVE_INPUT)

\* lines 78-82 and 134-136: n.audioContext = audioContext; return new notePlayer(n)
Build(n, audioContext, g, env) ==
    LET c == Constructor([keynb |-> n.keynb, freq |-> n.freq, name |-> n.name,
                          audioContext |-> audioContext], env)
    IN Return(New(c), c.console, g)

\* the try block of buildFromName, lines 58-82
BuildFromNameBody(noteName, audioContext, g, env) ==
    IF noteName = Undefined THEN Throw("note name was not provided", g)
    ELSE IF noteName.t # "string" THEN Throw("TypeError", g)   \* no slice method
    ELSE
      LET OCTAVE_INPUT == ParseInt(SliceLast(noteName.v)) IN
      IF OctaveRefused(OCTAVE_INPUT) THEN Throw("Invalid octave", g)
      ELSE
        LET NOTE_INPUT == SliceFirstTwo(noteName.v)
            name == TranslatedName(noteName.v, NOTE_INPUT, OCTAVE_INPUT)
            notes == GetNotesInfo(g)
            n == FindByName(notes.value, name)
        IN IF n = Undefined THEN Throw("Invalid note name", notes.g)
           ELSE Build(n, audioContext, notes.g, env)

\* notePlayer.buildFromName(noteName, audioContext), lines 56-88
BuildFromName(noteName, audioContext, g, env) ==
    TryCatch("buildFromName", BuildFromNameBody(noteName, audioContext, g, env))

\* list.reduce(function (prev, curr) {...}), lines 108-110, from index i on
RECURSIVE Closest(_, _, _, _)
Closest(list, i, prev, noteFreq) ==
    IF i > Len(list) THEN prev
    ELSE LET curr == list[i]
             closer == /\ IsNum(noteFreq)
                       /\ Abs(curr.freq - noteFreq.v) < Abs(prev.freq - noteFreq.v)
         IN IF closer THEN Closest(list, i + 1, curr, noteFreq)
            ELSE Closest(list, i + 1, prev, noteFreq)

\* line 103: the frequencies buildFromFrequency refuses
OutOfRange(noteFreq, list) ==
    \/ Less(ToNumber(noteFreq), Num(list[1].freq))
    \/ Less(Num(list[Len(list)].freq), ToNumber(noteFreq))

\* the try block of buildFromFrequency, lines 99-111
BuildFromFrequencyBody(noteFreq, audioContext, g, env) ==
    IF noteFreq = Undefined THEN Throw("note frequency was not provided", g)
    ELSE
      LET notes == GetNotesInfo(g)
          list == notes.value
      IN
      IF OutOfRange(noteFreq, list)
      THEN Throw("Invalid frequency (out of range 27.5-4186)", notes.g)
      ELSE LET closest == Closest(list, 2, list[1], ToNumber(noteFreq))
               r == BuildFromName(Str(closest.name), audioContext, notes.g, env)
           IN IF r.thrown THEN Throw("propagated", r.g)
              ELSE Return(r.ret, r.console, r.g)

\* notePlayer.buildFromFrequency(noteFreq, audioContext), lines 97-117
BuildFromFrequency(noteFreq, audioContext, g, env) ==
    TryCatch("buildFromFrequency", BuildFromFrequencyBody(noteFreq, audioContext, g, env))

\* the try block of buildFromKeyNb, lines 129-136
BuildFromKeyNbBody(noteKeyNb, audioContext, g, env) ==
    IF noteKeyNb = Undefined THEN Throw("note keyNumber was not provided", g)
    ELSE
      LET notes == GetNotesInfo(g)
          n == FindByKeyNb(notes.value, noteKeyNb)
      IN
      IF n = Undefined THEN Throw("Invalid keyNumber", notes.g)
      ELSE Build(n, audioContext, notes.g, env)

\* notePlayer.buildFromKeyNb(noteKeyNb, audioContext), lines 127-142
BuildFromKeyNb(noteKeyNb, audioContext, g, env) ==
    TryCatch("buildFromKeyNb", BuildFromKeyNbBody(noteKeyNb, audioContext, g, env))

\* what the caller of a factory gets: the value returned, or the error if
\* one reaches the caller
Outcome(r) == IF r.thrown THEN [t |-> "thrown"] ELSE r.ret

---------------------------------------------------------------------------
(* the caller of the static functions *)

MaxKeyArg == 90
MaxFreqOffset == 1

\* the table, to draw frequency arguments around its entries
Piano == GenerateFromStart.value

FlatKeys == {<<"C", "b">>, <<"D", "b">>, <<"E", "b">>, <<"F", "b">>,
             <<"G", "b">>, <<"A", "b">>, <<"B", "b">>}
SharpKeys == {DICT_KEYS[i] : i \in 1..Len(DICT_KEYS)}
OtherKeys == {<<"Z">>, <<"a">>, <<"B", "#">>, <<"H", "b">>, <<>>}

NameArgs ==
    {Str(p \o <<Digits[d]>>) : p \in FlatKeys \cup SharpKeys \cup OtherKeys, d \in 1..10}
    \cup {Str(p) : p \in FlatKeys \cup SharpKeys}
    \cup {Str(<<"B", "b", "b", "3">>), Str(<<"A", "1", "0">>), Str(<<"A", "4", " ">>),
          Undefined, Null, Num(440), Bool(TRUE)}

\* the keys around whose frequencies the frequency arguments are drawn
ProbedKeys == {1, 2, 3, 12, 13, 14, 37, 38, 48, 49, 50, 86, 87}

FreqArgs ==
    {Num(Piano[k].freq + d) : k \in ProbedKeys \cup {Len(Piano)},
                              d \in (0 - MaxFreqOffset)..MaxFreqOffset}
    \cup {Num((Piano[k].freq + Piano[k + 1].freq) \div 2 + d) :
             k \in ProbedKeys, d \in 0..MaxFreqOffset}
    \cup {Num(0), Num(1000), Num(-440000), Num(5000000),
          Undefined, Null, NaN, Str(<<"a", "b", "c">>)}

KeyNbArgs ==
    {Num(k) : k \in -1..MaxKeyArg}
    \cup {Undefined, Null, NaN, Bool(TRUE), Str(<<"4", "9">>), Str(<<"x">>)}

ContextArgs == {Undefined, Null, Ctx(1)}

\* the call of a factory that a run studies: the factory, its first argument
\* and the audio context passed
Inputs ==
    LET calls == ({"buildFromName"} \X NameArgs)
                 \cup ({"buildFromFrequency"} \X FreqArgs)
                 \cup ({"buildFromKeyNb"} \X KeyNbArgs)
    IN {[fn |-> x[1], arg |-> x[2], audioContext |-> ac] :
            x \in calls, ac \in ContextArgs}

\* the values _.random(0.5,3,true) can draw, in milliseconds
Durations == {500, 2999}

\* the context `new AudioContext()` gives to the instance in slot i
FreshCtx(i) == Ctx(10 + i)

Globals == [KEYNB |-> KEYNB, FREQ |-> FREQ]

CallGetNotesInfo ==
    LET notes == GetNotesInfo(Globals) IN
    /\ call' = <<call[2], "getNotesInfo">>
    /\ ret' = [t |-> "array", v |-> notes.value]
    /\ console' = <<>>
    /\ KEYNB' = notes.g.KEYNB
    /\ FREQ' = notes.g.FREQ
    /\ UNCHANGED <<window, input, players, plays, t_np, last, rerouted>>

CallBuildFromName ==
    \E d \in Durations :
        LET r == BuildFromName(input.arg, input.audioContext, Globals,
                               Env(window.AudioContext, FreshCtx(0), d)) IN
        /\ input.fn = "buildFromName"
        /\ call' = <<call[2], "buildFromName">>
        /\ ret' = Outcome(r)
        /\ console' = r.console
        /\ KEYNB' = r.g.KEYNB
        /\ FREQ' = r.g.FREQ
        /\ UNCHANGED <<window, input, players, plays, t_np, last, rerouted>>

CallBuildFromFrequency ==
    \E d \in Durations :
        LET r == BuildFromFrequency(input.arg, input.audioContext, Globals,
                                    Env(window.AudioContext, FreshCtx(0), d)) IN
        /\ input.fn = "buildFromFrequency"
        /\ call' = <<call[2], "buildFromFrequency">>
        /\ ret' = Outcome(r)
        /\ console' = r.console
        /\ KEYNB' = r.g.KEYNB
        /\ FREQ' = r.g.FREQ
        /\ UNCHANGED <<window, input, players, plays, t_np, last, rerouted>>

CallBuildFromKeyNb ==
    \E d \in Durations :
        LET r == BuildFromKeyNb(input.arg, input.audioContext, Globals,
                                Env(window.AudioContext, FreshCtx(0), d)) IN
        /\ input.fn = "buildFromKeyNb"
        /\ call' = <<call[2], "buildFromKeyNb">>
        /\ ret' = Outcome(r)
        /\ console' = r.console
        /\ KEYNB' = r.g.KEYNB
        /\ FREQ' = r.g.FREQ
        /\ UNCHANGED <<window, input, players, plays, t_np, last, rerouted>>

NoPlayer == [t |-> "none"]
NoCall == [op |-> "none", n |-> 0]
NumPlayers == 2

Init ==
    /\ FREQ = 0
    /\ KEYNB = 0
    /\ window \in {[AudioContext |-> b] : b \in BOOLEAN}
    /\ input \in Inputs
    /\ call = <<"none", "none">>
    /\ ret = Undefined
    /\ console = <<>>
    /\ players = [i \in 1..NumPlayers |-> NoPlayer]
    /\ plays = <<>>
    /\ t_np = 0
    /\ last = NoCall
    /\ rerouted = {}

Next ==
    \/ CallGetNotesInfo
    \/ CallBuildFromName
    \/ CallBuildFromFrequency
    \/ CallBuildFromKeyNb

Spec == Init /\ [][Next]_vars

---------------------------------------------------------------------------
(* the instances: the setters *)

MaxSetterCalls == 1
MaxPlays == 2

Slots == 1..NumPlayers
Exists(i) == players[i] # NoPlayer

\* lines 219-221: ac == void 0 holds of undefined and of null
SetAudioContextTo(this, ac) ==
    [threw |-> FALSE,
     this |-> [this EXCEPT !.audioContext =
                  IF ac = Undefined \/ ac = Null THEN this.audioContext ELSE ac]]

\* lines 229-231: the instance has no property audiocontext, so
\* this.audiocontext is undefined and reading its destination throws
SetDestinationNodeTo(this, dn) ==
    IF dn = Undefined
    THEN [threw |-> TRUE, this |-> this]
    ELSE [threw |-> FALSE, this |-> [this EXCEPT !.destinationNode = dn]]

\* lines 239-241
SetDurationTo(this, d) ==
    [threw |-> FALSE,
     this |-> [this EXCEPT !.duration = IF d = Undefined THEN this.duration ELSE d.v]]

\* lines 249-251
SetVolumeTo(this, v) ==
    [threw |-> FALSE,
     this |-> [this EXCEPT !.volume = IF v = Undefined THEN this.volume ELSE v.v]]

\* lines 259-261
SetVerboseTo(this, v) ==
    [threw |-> FALSE,
     this |-> [this EXCEPT !.verbose = (v = Undefined \/ v = Bool(TRUE))]]

\* n % 1 === 0, n in thousandths
IsWhole(n) == IsNum(n) /\ n.v % 1000 = 0

\* lines 269-271
SetAttackTo(this, n) ==
    [threw |-> FALSE,
     this |-> [this EXCEPT !.attack =
                  IF n = Undefined \/ IsWhole(n) THEN this.attack ELSE n.v]]

\* lines 279-281
SetReleaseTo(this, n) ==
    [threw |-> FALSE,
     this |-> [this EXCEPT !.release =
                  IF n = Undefined \/ IsWhole(n) THEN this.release ELSE n.v]]

Setters == {"setAudioContext", "setDestinationNode", "setDuration", "setVolume",
            "setVerbose", "setAttack", "setRelease"}

SetterArgs(op) ==
    CASE op = "setAudioContext" -> {Undefined, Null, Ctx(2)}
      [] op = "setDestinationNode" -> {Undefined, OtherNode(1)}
      [] op = "setDuration" -> {Undefined, Num(1000)}
      [] op = "setVolume" -> {Undefined, Num(500)}
      [] op = "setVerbose" -> {Undefined, Bool(TRUE), Bool(FALSE)}
      [] op = "setAttack" -> {Undefined, Num(500), Num(1000)}
      [] op = "setRelease" -> {Undefined, Num(200), Num(0)}

\* the caller may call one more setter of instance i
MayCallSetter(i) == Exists(i) /\ last.n < MaxSetterCalls

\* what is kept of the call of setter op of instance i with arg, which ended as r
SetterCall(op, i, arg, r) ==
    [op |-> op, self |-> i, arg |-> arg, threw |-> r.threw,
     changed |-> r.this # players[i], n |-> last.n + 1]

SetAudioContext ==
    \E i \in Slots : \E arg \in SetterArgs("setAudioContext") :
        LET r == SetAudioContextTo(players[i], arg) IN
        /\ MayCallSetter(i)
        /\ players' = [players EXCEPT ![i] = r.this]
        /\ last' = SetterCall("setAudioContext", i, arg, r)
        /\ rerouted' = rerouted
        /\ UNCHANGED <<staticVars, window, plays, t_np>>

SetDestinationNode ==
    \E i \in Slots : \E arg \in SetterArgs("setDestinationNode") :
        LET r == SetDestinationNodeTo(players[i], arg) IN
        /\ MayCallSetter(i)
        /\ players' = [players EXCEPT ![i] = r.this]
        /\ last' = SetterCall("setDestinationNode", i, arg, r)
        /\ rerouted' = rerouted \cup {i}
        /\ UNCHANGED <<staticVars, window, plays, t_np>>

SetDuration ==
    \E i \in Slots : \E arg \in SetterArgs("setDuration") :
        LET r == SetDurationTo(players[i], arg) IN
        /\ MayCallSetter(i)
        /\ players' = [players EXCEPT ![i] = r.this]
        /\ last' = SetterCall("setDuration", i, arg, r)
        /\ rerouted' = rerouted
        /\ UNCHANGED <<staticVars, window, plays, t_np>>

SetVolume ==
    \E i \in Slots : \E arg \in SetterArgs("setVolume") :
        LET r == SetVolumeTo(players[i], arg) IN
        /\ MayCallSetter(i)
        /\ players' = [players EXCEPT ![i] = r.this]
        /\ last' = SetterCall("setVolume", i, arg, r)
        /\ rerouted' = rerouted
        /\ UNCHANGED <<staticVars, window, plays, t_np>>

SetVerbose ==
    \E i \in Slots : \E arg \in SetterArgs("setVerbose") :
        LET r == SetVerboseTo(players[i], arg) IN
        /\ MayCallSetter(i)
        /\ players' = [players EXCEPT ![i] = r.this]
        /\ last' = SetterCall("setVerbose", i, arg, r)
        /\ rerouted' = rerouted
        /\ UNCHANGED <<staticVars, window, plays, t_np>>

SetAttack ==
    \E i \in Slots : \E arg \in SetterArgs("setAttack") :
        LET r == SetAttackTo(players[i], arg) IN
        /\ MayCallSetter(i)
        /\ players' = [players EXCEPT ![i] = r.this]
        /\ last' = SetterCall("setAttack", i, arg, r)
        /\ rerouted' = rerouted
        /\ UNCHANGED <<staticVars, window, plays, t_np>>

SetRelease ==
    \E i \in Slots : \E arg \in SetterArgs("setRelease") :
        LET r == SetReleaseTo(players[i], arg) IN
        /\ MayCallSetter(i)
        /\ players' = [players EXCEPT ![i] = r.this]
        /\ last' = SetterCall("setRelease", i, arg, r)
        /\ rerouted' = rerouted
        /\ UNCHANGED <<staticVars, window, plays, t_np>>

---------------------------------------------------------------------------
(* the instances: construction and play *)

\* the key number the caller builds the instance of slot i from
CreatedKey(i) == 48 + i

\* the caller keeps in slot i what notePlayer.buildFromKeyNb(k, ac) returned
Create(i) ==
    \E ac \in ContextArgs :
        LET r == BuildFromKeyNb(Num(CreatedKey(i)), ac, Globals,
                                Env(window.AudioContext, FreshCtx(i), 500)) IN
        /\ ~Exists(i)
        /\ Outcome(r).t = "notePlayer"
        /\ players' = [players EXCEPT ![i] = Outcome(r)]
        /\ KEYNB' = r.g.KEYNB
        /\ FREQ' = r.g.FREQ
        /\ UNCHANGED <<window, input, call, ret, console, plays, t_np, last, rerouted>>

\* line 188: this.audioContext.createOscillator() throws on undefined and null
NoContext(this) == this.audioContext.t # "AudioContext"

\* line 196: gainNode.connect(this.destinationNode) throws when the
\* destination is undefined; when it is a node of another context than the
\* gain's, the host decides (accepts) whether the connection is made
ConnectThrows(this, accepts) ==
    \/ this.destinationNode.t # "AudioNode"
    \/ this.destinationNode.ctx # this.audioContext.id /\ ~accepts

\* the record of a call of play that threw before line 198
ThrownPlay(i, cb) ==
    [self |-> i, cb |-> cb, threw |-> TRUE, ctx |-> 0, dest |-> Undefined,
     osc |-> "none", timer |-> "none", cbCount |-> 0,
     log |-> <<>>, ownVerbose |-> FALSE, playsAtFire |-> 0]

\* the record of a call of play that returned the oscillator: started,
\* connected to dest, its stop scheduled, its onended handler set
StartedPlay(i, cb, this) ==
    [self |-> i, cb |-> cb, threw |-> FALSE, ctx |-> this.audioContext.id,
     dest |-> this.destinationNode,
     osc |-> "started", timer |-> "pending", cbCount |-> 0,
     log |-> <<>>, ownVerbose |-> FALSE, playsAtFire |-> 0]

\* instance i .play(callback), lines 183-211; cb: whether a callback is given
Play(i, cb) ==
    /\ Exists(i)
    /\ Len(plays) < MaxPlays
    /\ \E accepts \in BOOLEAN :
          IF NoContext(players[i]) \/ ConnectThrows(players[i], accepts)
          THEN /\ plays' = Append(plays, ThrownPlay(i, cb))
               /\ t_np' = t_np
          ELSE /\ plays' = Append(plays, StartedPlay(i, cb, players[i]))
               /\ t_np' = i
    /\ UNCHANGED <<staticVars, window, players, last, rerouted>>

\* the instance whose verbose and name the timer callback of play p reads:
\* the global t_np, line 203
LoggedInstance(p) == t_np

\* the oscillator the timer callback of play p stops: the variable
\* oscillator of that call, line 204
StoppedOscillator(p) == p

\* oscillator.stop(): a started oscillator is told to stop
Stop(o) == IF o.osc = "started" THEN [o EXCEPT !.osc = "stopping"] ELSE o

\* the callback of setTimeout of play p runs, lines 202-205
TimerFires(p) ==
    /\ p \in 1..Len(plays)
    /\ plays[p].timer = "pending"
    /\ LET who == players[LoggedInstance(p)]
           q == StoppedOscillator(p)
           fired == [plays EXCEPT ![p].timer = "fired",
                                  ![p].log = IF who.verbose THEN <<who.name>> ELSE <<>>,
                                  ![p].ownVerbose = players[plays[p].self].verbose,
                                  ![p].playsAtFire = Len(plays)]
       IN plays' = [fired EXCEPT ![q] = Stop(fired[q])]
    /\ UNCHANGED <<staticVars, window, players, t_np, last, rerouted>>

\* the caller stops the oscillator that play p returned
CallerStops(p) ==
    /\ p \in 1..Len(plays)
    /\ plays[p].osc = "started"
    /\ plays' = [plays EXCEPT ![p] = Stop(plays[p])]
    /\ UNCHANGED <<staticVars, window, players, t_np, last, rerouted>>

\* the host notifies the end of playback of the oscillator of play p, which
\* it was told to stop: the onended handler runs, lines 207-209
Ended(p) ==
    /\ p \in 1..Len(plays)
    /\ plays[p].osc = "stopping"
    /\ plays' = [plays EXCEPT ![p].osc = "ended",
                              ![p].cbCount = @ + (IF plays[p].cb THEN 1 ELSE 0)]
    /\ UNCHANGED <<staticVars, window, players, t_np, last, rerouted>>

NoInput == [fn |-> "none", arg |-> Undefined, audioContext |-> Undefined]

PlayerInit ==
    /\ FREQ = 0
    /\ KEYNB = 0
    /\ window \in {[AudioContext |-> b] : b \in BOOLEAN}
    /\ input = NoInput
    /\ call = <<"none", "none">>
    /\ ret = Undefined
    /\ console = <<>>
    /\ players = [i \in 1..NumPlayers |-> NoPlayer]
    /\ plays = <<>>
    /\ t_np = 0
    /\ last = NoCall
    /\ rerouted = {}

PlayerNext ==
    \/ \E i \in Slots : Create(i)
    \/ SetAudioContext
    \/ SetDestinationNode
    \/ SetDuration
    \/ SetVolume
    \/ SetVerbose
    \/ SetAttack
    \/ SetRelease
    \/ \E i \in Slots, cb \in BOOLEAN : Play(i, cb)
    \/ \E p \in 1..MaxPlays : TimerFires(p)
    \/ \E p \in 1..MaxPlays : CallerStops(p)
    \/ \E p \in 1..MaxPlays : Ended(p)

\* the host runs a due timer callback, and notifies the end of an oscillator
\* it was told to stop
PlayerFairness ==
    \A p \in 1..MaxPlays : WF_vars(TimerFires(p)) /\ WF_vars(Ended(p))

\* a caller that builds instances, calls their setters and plays them
PlayerSpec == PlayerInit /\ [][PlayerNext]_vars /\ PlayerFairness

---------------------------------------------------------------------------
(* properties of the table and of the factories *)

Factories == {"buildFromName", "buildFromFrequency", "buildFromKeyNb"}
FactoryReturned == call[2] \in Factories
TableReturned == call[2] = "getNotesInfo"

\* the array has 88 records, record i has key number i, the names differ
\* pairwise, each frequency is one semitone step above the one before it
WellFormedTable(a) ==
    /\ Len(a) = 88
    /\ \A i \in 1..Len(a) : a[i].keynb = i
    /\ \A i, j \in 1..Len(a) : i # j => a[i].name # a[j].name
    /\ \A i \in 1..(Len(a) - 1) :
          /\ a[i + 1].freq = SemitoneUp(a[i].freq)
          /\ a[i + 1].freq > a[i].freq

\* C1: every call of getNotesInfo, whatever calls of getNotesInfo and of the
\* factories came before it, returns a well-formed table of 88 records, and
\* the same one as the call of getNotesInfo before it.
C1_TableIsWellFormedAndTheSame ==
    /\ [](TableReturned => WellFormedTable(ret.v))
    /\ [][(TableReturned /\ call'[2] = "getNotesInfo") => ret' = ret]_vars

\* a getNotesInfo that follows a factory call which itself ran getNotesInfo
C1_Witness ==
    /\ call = <<"buildFromFrequency", "getNotesInfo">>
    /\ KEYNB = 108
    /\ Len(ret.v) = 88
    /\ ret.v[88].keynb = 88

NameOfKey(a, k) == a[k].name
Near(x, y, tolerance) == Abs(x - y) <= tolerance

RECURSIVE SemitoneSteps(_, _)
SemitoneSteps(f, n) == IF n = 0 THEN f ELSE SemitoneSteps(SemitoneUp(f), n - 1)

\* C2: in the table returned, key 1 is named A0, key 49 A4 and key 88 C8,
\* their frequencies 0, 48 and 87 semitone steps above 27.5 Hz: about 27.5 Hz,
\* 440 Hz (within 0.05 Hz, the fixed-point precision) and 4186 Hz (within 1 Hz).
C2_AnchorNotes ==
    TableReturned =>
        /\ NameOfKey(ret.v, 1) = <<"A", "0">>
        /\ NameOfKey(ret.v, 49) = <<"A", "4">>
        /\ NameOfKey(ret.v, 88) = <<"C", "8">>
        /\ Near(ret.v[1].freq, 27500, 10)
        /\ ret.v[49].freq = SemitoneSteps(ret.v[1].freq, 48)
        /\ ret.v[88].freq = SemitoneSteps(ret.v[1].freq, 87)
        /\ Near(ret.v[49].freq, 440000, 50)
        /\ Near(ret.v[88].freq, 4186000, 1000)

\* what the code does hold of: the frequencies, and key 88 named C7
C2_AsCoded ==
    TableReturned =>
        /\ NameOfKey(ret.v, 1) = <<"A", "0">>
        /\ NameOfKey(ret.v, 49) = <<"A", "4">>
        /\ NameOfKey(ret.v, 88) = <<"C", "7">>
        /\ Near(ret.v[1].freq, 27500, 10)
        /\ ret.v[49].freq = SemitoneSteps(ret.v[1].freq, 48)
        /\ ret.v[88].freq = SemitoneSteps(ret.v[1].freq, 87)
        /\ Near(ret.v[49].freq, 440000, 50)
        /\ Near(ret.v[88].freq, 4186000, 1000)

\* the table entry nearest to the frequency f, the lower key on an exact tie
Nearest(f) ==
    Piano[CHOOSE k \in 1..Len(Piano) :
            \A j \in 1..Len(Piano) :
                \/ Abs(Piano[k].freq - f) < Abs(Piano[j].freq - f)
                \/ Abs(Piano[k].freq - f) = Abs(Piano[j].freq - f) /\ k <= j]

InTableRange(x) ==
    IsNum(x) /\ Piano[1].freq <= x.v /\ x.v <= Piano[Len(Piano)].freq

IsPlayerOf(r, e) ==
    /\ r.t = "notePlayer"
    /\ r.pianoKeyNb = e.keynb
    /\ r.frequency = e.freq
    /\ r.name = e.name

\* C3: for a frequency within the table's range, buildFromFrequency returns
\* a player of the nearest table entry (the lower key on a tie); it returns
\* null only when the frequency is absent or outside the range.
C3_NearestWithinRange ==
    (call[2] = "buildFromFrequency" /\ InTableRange(input.arg)) =>
        IsPlayerOf(ret, Nearest(input.arg.v))

\* the same, for the frequencies whose nearest entry is not of octave 0
C3_AsCoded ==
    (/\ call[2] = "buildFromFrequency"
     /\ InTableRange(input.arg)
     /\ Nearest(input.arg.v).keynb > 12) =>
        IsPlayerOf(ret, Nearest(input.arg.v))

\* an exact tie between two entries above octave 0 went to the lower key
C3_TieReached ==
    /\ call[2] = "buildFromFrequency"
    /\ InTableRange(input.arg)
    /\ \E k \in 13..87 :
          /\ input.arg.v - Piano[k].freq = Piano[k + 1].freq - input.arg.v
          /\ ret.t = "notePlayer"
          /\ ret.pianoKeyNb = k

\* the sharp or natural class the claim maps a flat class to
SharpOfFlat(flat) ==
    CASE flat = <<"C", "b">> -> <<"B">>
      [] flat = <<"D", "b">> -> <<"C", "#">>
      [] flat = <<"E", "b">> -> <<"D", "#">>
      [] flat = <<"F", "b">> -> <<"E">>
      [] flat = <<"G", "b">> -> <<"F", "#">>
      [] flat = <<"A", "b">> -> <<"G", "#">>
      [] flat = <<"B", "b">> -> <<"A", "#">>

IsFlatWithDigit(x) ==
    /\ x.t = "string"
    /\ Len(x.v) = 3
    /\ SubSeq(x.v, 1, 2) \in FlatKeys
    /\ IsDigit(x.v[3])

\* what identifies the result of a factory: null, or key, frequency and name
Resolved(r) ==
    IF r.t = "notePlayer" THEN <<r.pianoKeyNb, r.frequency, r.name>> ELSE <<r.t>>

\* C4: buildFromName of a flat class and an octave digit resolves as
\* buildFromName of the mapped sharp or natural class and the same digit:
\* the same key number, frequency and name, or null both.
C4_FlatResolvesAsSharp ==
    (call[2] = "buildFromName" /\ IsFlatWithDigit(input.arg)) =>
        \E d \in Durations :
            Resolved(ret) =
                Resolved(Outcome(BuildFromName(
                    Str(SharpOfFlat(SubSeq(input.arg.v, 1, 2)) \o <<input.arg.v[3]>>),
                    input.audioContext, Globals,
                    Env(window.AudioContext, FreshCtx(0), d))))

C4_Witness ==
    /\ call[2] = "buildFromName"
    /\ input.arg = Str(<<"B", "b", "3">>)
    /\ ret.t = "notePlayer"
    /\ ret.name = <<"A", "#", "3">>
    /\ ret.pianoKeyNb = 38

C4_WitnessBothNull ==
    /\ call[2] = "buildFromName"
    /\ input.arg = Str(<<"C", "b", "9">>)
    /\ ret = Null

\* the arguments the claim lists as failing: absent, of the wrong type, an
\* octave digit outside 1..8, a frequency outside the table's range, a name
\* or a key number with no table entry
FailingArgument ==
    LET x == input.arg IN
    \/ x = Undefined
    \/ /\ input.fn = "buildFromName"
       /\ \/ x.t # "string"
          \/ Len(x.v) > 0 /\ x.v[Len(x.v)] \in {"0", "9"}
          \/ /\ \A k \in 1..Len(Piano) : Piano[k].name # x.v
             /\ SliceFirstTwo(x.v) \notin FlatKeys
    \/ /\ input.fn = "buildFromFrequency"
       /\ IsNum(x)
       /\ ~InTableRange(x)
    \/ /\ input.fn = "buildFromKeyNb"
       /\ \/ x = Null
          \/ x.t = "number" /\ (x.nan \/ x.v \notin 1..88)

LoggedFailure ==
    /\ Len(console) = 2
    /\ console[1].level = "error"
    /\ console[1].prefix = "NOTEPLAYER ERROR: "
    /\ console[2].level = "warn"
    /\ console[2].prefix = "USAGE: notePlayer."

\* C5: no call of a factory propagates an error; a call with a failing
\* argument returns null; and a call returns null exactly when it wrote a
\* failure message and a usage hint.
C5_FailuresReturnNull ==
    FactoryReturned =>
        /\ ret.t \in {"null", "notePlayer"}
        /\ FailingArgument => ret = Null
        /\ ret = Null <=> LoggedFailure

C5_Witness ==
    /\ call[2] = "buildFromName"
    /\ input.arg = Str(<<"Z", "9">>)
    /\ ret = Null
    /\ LoggedFailure
    /\ console[1].what = "Invalid octave"

C5_WitnessWrongType ==
    /\ call[2] = "buildFromName"
    /\ input.arg = Num(440)
    /\ ret = Null
    /\ console[1].what = "TypeError"

\* C6: a player returned by a factory has all its fields set, the audio
\* context and the destination node included: a failure in the constructor
\* gives null.
C6_ReturnedPlayerIsComplete ==
    (FactoryReturned /\ ret.t = "notePlayer") =>
        /\ ret.audioContext.t = "AudioContext"
        /\ ret.destinationNode.t = "AudioNode"

\* what the code holds of: a failure in the constructor is logged, and the
\* player is returned without its destination node
C6_AsCoded ==
    (FactoryReturned /\ ret.t = "notePlayer") =>
        \/ ret.audioContext.t = "AudioContext" /\ ret.destinationNode.t = "AudioNode"
        \/ ret.destinationNode = Undefined /\ console = <<TypeErrorLine>>

---------------------------------------------------------------------------
(* properties of the instances *)

NoOpSetters == {"setDuration", "setVolume", "setAttack", "setRelease",
                "setAudioContext", "setDestinationNode"}

\* C7: setDuration, setVolume, setAttack, setRelease, setAudioContext and
\* setDestinationNode, called with undefined, return normally and leave every
\* field of the instance as it was.
C7_UndefinedIsNoOp ==
    (last.op \in NoOpSetters /\ last.arg = Undefined) =>
        ~last.threw /\ ~last.changed

\* what the code holds of: setDestinationNode(undefined) throws, the other
\* five return; none changes a field
C7_AsCoded ==
    (last.op \in NoOpSetters /\ last.arg = Undefined) =>
        /\ ~last.changed
        /\ last.threw <=> last.op = "setDestinationNode"

Made(n) == n <= Len(plays)

\* the n-th call of play; before it is made, a record of no call
PlayCall(n) ==
    IF Made(n) THEN plays[n]
    ELSE [self |-> 0, cb |-> FALSE, threw |-> FALSE, osc |-> "none",
          timer |-> "none", cbCount |-> 0]

\* cb of the n-th call is not invoked twice, nor before the oscillator of
\* that call ended, and the scheduled stop reached that oscillator
CallbackInOrder(n) ==
    PlayCall(n).cb =>
        /\ PlayCall(n).cbCount <= 1
        /\ PlayCall(n).cbCount = 1 => PlayCall(n).osc = "ended"
        /\ PlayCall(n).timer = "fired" => PlayCall(n).osc \in {"stopping", "ended"}

\* C8: for every call play(cb), the scheduled stop reaches the oscillator
\* of that call, and cb is invoked exactly once: never before the end of that
\* oscillator, never twice, and eventually.
C8_CallbackExactlyOnce ==
    \A n \in 1..MaxPlays :
        /\ []CallbackInOrder(n)
        /\ PlayCall(n).cb ~> (PlayCall(n).cbCount = 1)

\* what the code holds of: the same for the calls of play that did not throw
C8_AsCoded ==
    \A n \in 1..MaxPlays :
        /\ []CallbackInOrder(n)
        /\ (PlayCall(n).cb /\ ~PlayCall(n).threw) ~> (PlayCall(n).cbCount = 1)

\* play a, then play b of another instance before the timer of a ran
Overlapped(a, b) ==
    /\ a < b
    /\ Made(b)
    /\ plays[a].self # plays[b].self
    /\ plays[a].timer = "fired"
    /\ b <= plays[a].playsAtFire

\* the completion diagnostic of play a follows the verbose flag of its own
\* instance and carries its name
OwnDiagnostic(a) ==
    /\ plays[a].log # <<>> <=> plays[a].ownVerbose
    /\ plays[a].log # <<>> => plays[a].log[1] = players[plays[a].self].name

\* C9: when play is called on A and then on B before the scheduled stop of A
\* has run, the completion diagnostic of A is written if and only if A is
\* verbose, and names A.
C9_OwnCompletionDiagnostic ==
    \A a, b \in 1..MaxPlays : Overlapped(a, b) => OwnDiagnostic(a)

\* what the code holds of: the same when no other instance was played since
C9_AsCoded ==
    \A a \in 1..MaxPlays :
        (/\ Made(a)
         /\ plays[a].timer = "fired"
         /\ \A b \in 1..plays[a].playsAtFire : plays[b].self = plays[a].self)
        => OwnDiagnostic(a)

\* C10: on an instance whose setDestinationNode was never called, the
\* destination node is the main output of the current audio context, and
\* play connects the gain node to a node of the context that made it.
C10_DestinationOfCurrentContext ==
    /\ \A i \in Slots :
          (Exists(i) /\ i \notin rerouted /\ players[i].audioContext.t = "AudioContext")
          => players[i].destinationNode = Destination(players[i].audioContext)
    /\ \A n \in 1..MaxPlays :
          (Made(n) /\ ~plays[n].threw /\ plays[n].self \notin rerouted)
          => plays[n].dest.ctx = plays[n].ctx

\* what the code holds of: the destination node is the main output of the
\* context the instance was constructed with, if it got that far
C10_AsCoded ==
    \A i \in Slots :
        (Exists(i) /\ i \notin rerouted) =>
            \/ players[i].destinationNode = Undefined
            \/ players[i].destinationNode \in {Destination(Ctx(1)), Destination(FreshCtx(i))}

===========================================================================
